---- MODULE Spec2Model ----
(***************************************************************************)
(* Model of the CHIP-8 machine state core (src/src/core/chip8.rs) and of   *)
(* the pixel accessors of the renderer (src/src/display.rs), and of the     *)
(* tone generator (src/src/audio.rs).                                      *)
(*                                                                         *)
(* The operations fall into groups that touch disjoint fields; each group  *)
(* has its own specification (SpecAddr, SpecStack, SpecCycle, SpecCells,   *)
(* SpecPixels, SpecTimers, SpecAudio) and Spec is all of them together.    *)
(*                                                                         *)
(* Every guarded operation of `impl Chip8` is one action.  The variable    *)
(* `last` records the most recent call: its name, its arguments and what   *)
(* it returned, so that properties can speak about return values.          *)
(***************************************************************************)
EXTENDS Integers, Naturals, Sequences, FiniteSets, TLC

(***************************************************************************)
(* Program constants.                                                      *)
(***************************************************************************)
RAM_SIZE == 4096
PC_LIMIT == 4094
STACK_SIZE == 16
NUM_REGS == 16
NUM_KEYS == 16
DISPLAY_SIZE == 64 * 32
PC_START == 512
U8_MAX == 255
U16_MAX == 65535
COLS == 64
ROWS == 32
SCALE == 20
WIDTH == COLS * SCALE
HEIGHT == ROWS * SCALE
FOREGROUND == 16756736
BACKGROUND == 0

(***************************************************************************)
(* Bounds of the model: how far around each boundary the inputs range.     *)
(***************************************************************************)
Over == 1
MaxAlt == 2
MaxTicks == 257
MaxTones == 20
ProbeSpan == 1
MaxRenders == 2
MaxCalls == 3

(* The field of a call record that the call does not have. *)
None == "none"

Max(a, b) == IF a >= b THEN a ELSE b

(***************************************************************************)
(* The three large arrays (ram, display, Display.display) start as [0; N]. *)
(* Each is held as the function from the indices of its nonzero cells to   *)
(* their values; every other cell is 0.  At reads a cell, Put writes one.  *)
(***************************************************************************)
Zeroed == [k \in {} |-> 0]

At(arr, k) == IF k \in DOMAIN arr THEN arr[k] ELSE 0

Put(arr, k, x) ==
    IF x = 0
       THEN [j \in (DOMAIN arr) \ {k} |-> arr[j]]
       ELSE [j \in (DOMAIN arr) \cup {k} |-> IF j = k THEN x ELSE arr[j]]

(***************************************************************************)
(* State: the fields of struct Chip8, the framebuffer of struct Display,   *)
(* and the record of the last call.  cyc is the position of the caller in  *)
(* the stack full-cycle script; ticks counts the decrease_timers calls     *)
(* since the timers were last set, dt0 and st0 are the values they had     *)
(* then.                                                                   *)
(*                                                                         *)
(* struct Audio is the flag beeping and the sink; of the sink the model    *)
(* keeps the number of sources queued in it (sink) and whether it is       *)
(* paused.  issued counts the tones appended to the sink so far.           *)
(*                                                                         *)
(* buffer is Display.buffer, the device image of WIDTH * HEIGHT cells, of  *)
(* which the model keeps the cells at the device pixels of Probes.  pat,   *)
(* cell and renders are the position of main: the pattern it draws, the    *)
(* next cell of its drawing loop, and the number of render calls so far.   *)
(*                                                                         *)
(* calls counts the calls a caller has made, and lifo is the abstract      *)
(* stack: the values pushed and not yet popped, oldest first.  phase is    *)
(* the position of main in the body of its loop.                           *)
(***************************************************************************)
VARIABLES pc, v, sp, stack, i, ram, display, keyboard, dt, st,
          d_display, last, cyc, ticks, dt0, st0,
          beeping, sink, paused, issued,
          buffer, pat, cell, renders, calls, lifo, phase

chip8 == <<pc, v, sp, stack, i, ram, display, keyboard, dt, st>>
script == <<cyc, ticks, dt0, st0>>
audio == <<beeping, sink, paused>>
mainpos == <<pat, cell, renders>>
ghost == <<calls, lifo, phase>>
others == <<audio, issued, buffer, mainpos, ghost>>
vars == <<pc, v, sp, stack, i, ram, display, keyboard, dt, st,
          d_display, last, cyc, ticks, dt0, st0,
          beeping, sink, paused, issued,
          buffer, pat, cell, renders, calls, lifo, phase>>

(***************************************************************************)
(* The device pixels at which the model keeps Display.buffer: those whose  *)
(* X and Y lie on either side of the first ProbeSpan block borders and of  *)
(* the last ProbeSpan block borders.                                       *)
(***************************************************************************)
Edges(size) ==
    LET near == {k * SCALE - 1 : k \in 1..ProbeSpan}
                    \cup {k * SCALE : k \in 0..ProbeSpan}
    IN  {n \in near \cup {size - 1 - n : n \in near} : n \in 0..(size - 1)}

Probes == {Y * WIDTH + X : X \in Edges(WIDTH), Y \in Edges(HEIGHT)}

Call(op, idx, val, res, out) ==
    [op |-> op, idx |-> idx, val |-> val, res |-> res, out |-> out]

IsErr(c) == c.res # "Ok"

(***************************************************************************)
(* Chip8::new, Display::new and Audio::new (the sink starts paused).        *)
(***************************************************************************)
InitMachine ==
    /\ pc = PC_START
    /\ v = [k \in 0..(NUM_REGS - 1) |-> 0]
    /\ sp = 0
    /\ stack = [k \in 0..(STACK_SIZE - 1) |-> 0]
    /\ i = 0
    /\ ram = Zeroed
    /\ display = Zeroed
    /\ keyboard = [k \in 0..(NUM_KEYS - 1) |-> FALSE]
    /\ dt = 0
    /\ st = 0
    /\ d_display = Zeroed
    /\ last = Call("new", None, None, "Ok", None)
    /\ cyc = 0
    /\ ticks = 0
    /\ dt0 = 0
    /\ st0 = 0
    /\ beeping = FALSE
    /\ sink = 0
    /\ paused = TRUE
    /\ issued = 0
    /\ buffer = [p \in Probes |-> 0]
    /\ cell = 0
    /\ renders = 0
    /\ calls = 0
    /\ lifo = <<>>
    /\ phase = "start"

Init == InitMachine /\ pat = "checker"

(***************************************************************************)
(* Inputs.  Addresses are u16 arguments taken around the two limits.       *)
(***************************************************************************)
AddrVals ==
    {0, 1, 16, PC_START, U16_MAX} \cup ((PC_LIMIT - Over)..(RAM_SIZE + Over))

(***************************************************************************)
(* Chip8::set_pc: the guard reads the stored pc, not the argument.         *)
(***************************************************************************)
set_pc(value) ==
    /\ IF pc > PC_LIMIT
          THEN /\ last' = Call("set_pc", None, value, "PCOutOfBounds", None)
               /\ pc' = pc
          ELSE /\ pc' = value
               /\ last' = Call("set_pc", None, value, "Ok", None)
    /\ UNCHANGED <<v, sp, stack, i, ram, display, keyboard, dt, st, d_display>>

(***************************************************************************)
(* Chip8::set_i: the argument is stored first and validated afterwards.    *)
(***************************************************************************)
set_i(value) ==
    /\ i' = value
    /\ IF i' >= RAM_SIZE
          THEN last' = Call("set_i", None, value, "IOutOfBounds", None)
          ELSE last' = Call("set_i", None, value, "Ok", None)
    /\ UNCHANGED <<pc, v, sp, stack, ram, display, keyboard, dt, st, d_display>>

SetPc == \E value \in AddrVals : set_pc(value) /\ UNCHANGED <<script, others>>
SetI == \E value \in AddrVals : set_i(value) /\ UNCHANGED <<script, others>>

NextAddr == SetPc \/ SetI

SpecAddr == Init /\ [][NextAddr]_vars

(***************************************************************************)
(* Chip8::push_stack and Chip8::pop_stack.                                 *)
(***************************************************************************)
push_stack_early_overflow(value) ==
    /\ IF sp >= STACK_SIZE - 1
          THEN /\ last' = Call("push_stack", None, value, "StackOverflow", None)
               /\ UNCHANGED <<sp, stack>>
          ELSE /\ stack' = [stack EXCEPT ![sp] = value]
               /\ sp' = sp + 1
               /\ last' = Call("push_stack", None, value, "Ok", None)
    /\ UNCHANGED <<pc, v, i, ram, display, keyboard, dt, st, d_display>>

push_stack_below_top(value) ==
    /\ IF sp >= STACK_SIZE
          THEN /\ last' = Call("push_stack", None, value, "StackOverflow", None)
               /\ UNCHANGED <<sp, stack>>
          ELSE /\ stack' = [stack EXCEPT ![Max(sp - 1, 0)] = value]
               /\ sp' = sp + 1
               /\ last' = Call("push_stack", None, value, "Ok", None)
    /\ UNCHANGED <<pc, v, i, ram, display, keyboard, dt, st, d_display>>

push_stack(value) ==
    /\ IF sp >= STACK_SIZE
          THEN /\ last' = Call("push_stack", None, value, "StackOverflow", None)
               /\ UNCHANGED <<sp, stack>>
          ELSE /\ stack' = [stack EXCEPT ![sp] = value]
               /\ sp' = sp + 1
               /\ last' = Call("push_stack", None, value, "Ok", None)
    /\ UNCHANGED <<pc, v, i, ram, display, keyboard, dt, st, d_display>>

pop_stack_early_underflow ==
    /\ IF sp <= 1
          THEN /\ last' = Call("pop_stack", None, None, "StackUnderflow", None)
               /\ UNCHANGED sp
          ELSE /\ sp' = sp - 1
               /\ last' = Call("pop_stack", None, None, "Ok", None)
    /\ UNCHANGED <<pc, v, stack, i, ram, display, keyboard, dt, st, d_display>>

pop_stack_clearing_slot ==
    /\ IF sp = 0
          THEN /\ last' = Call("pop_stack", None, None, "StackUnderflow", None)
               /\ UNCHANGED <<sp, stack>>
          ELSE /\ sp' = sp - 1
               /\ stack' = [stack EXCEPT ![sp - 1] = 0]
               /\ last' = Call("pop_stack", None, None, "Ok", None)
    /\ UNCHANGED <<pc, v, i, ram, display, keyboard, dt, st, d_display>>

pop_stack ==
    /\ IF sp = 0
          THEN /\ last' = Call("pop_stack", None, None, "StackUnderflow", None)
               /\ UNCHANGED sp
          ELSE /\ sp' = sp - 1
               /\ last' = Call("pop_stack", None, None, "Ok", None)
    /\ UNCHANGED <<pc, v, stack, i, ram, display, keyboard, dt, st, d_display>>

(***************************************************************************)
(* Pushed values: 11 freely, 99 while fewer than MaxAlt slots hold it.     *)
(***************************************************************************)
PushVals == {11, 99}
AltCount == Cardinality({k \in DOMAIN stack : stack[k] = 99})
MayPush(value) == value \in PushVals /\ (value = 99 => AltCount < MaxAlt)

Push == \E value \in PushVals :
            MayPush(value) /\ push_stack(value) /\ UNCHANGED <<script, others>>
Pop == pop_stack /\ UNCHANGED <<script, others>>

NextStack == Push \/ Pop

SpecStack == Init /\ [][NextStack]_vars

(***************************************************************************)
(* The full cycle of tests::test_stack_full_cycle, with the seventeenth    *)
(* push of tests::test_stack_overflow: 16 pushes, one more push, 16 pops,  *)
(* one push.  cyc counts the calls made so far.                            *)
(***************************************************************************)
CycleLen == 2 * STACK_SIZE + 2

CyclePush ==
    /\ cyc \in (0..STACK_SIZE) \cup {2 * STACK_SIZE + 1}
    /\ \E value \in PushVals : MayPush(value) /\ push_stack(value)
    /\ cyc' = cyc + 1
    /\ UNCHANGED <<ticks, dt0, st0, others>>

CyclePop ==
    /\ cyc \in (STACK_SIZE + 1)..(2 * STACK_SIZE)
    /\ pop_stack
    /\ cyc' = cyc + 1
    /\ UNCHANGED <<ticks, dt0, st0, others>>

NextCycle == CyclePush \/ CyclePop

SpecCycle == Init /\ [][NextCycle]_vars

(***************************************************************************)
(* Chip8::get_ram and Chip8::set_ram (index: u16, value: u8).              *)
(***************************************************************************)
get_ram(index) ==
    /\ IF index >= RAM_SIZE
          THEN last' = Call("get_ram", index, None, "InvalidMemoryAccess", None)
          ELSE last' = Call("get_ram", index, None, "Ok", At(ram, index))
    /\ UNCHANGED <<chip8, d_display>>

set_ram_late_guard(index, value) ==
    /\ IF index > RAM_SIZE
          THEN /\ last' = Call("set_ram", index, value, "InvalidMemoryAccess", None)
               /\ UNCHANGED ram
          ELSE /\ ram' = Put(ram, index, value)
               /\ last' = Call("set_ram", index, value, "Ok", None)
    /\ UNCHANGED <<pc, v, sp, stack, i, display, keyboard, dt, st, d_display>>

set_ram_next_cell(index, value) ==
    /\ IF index >= RAM_SIZE
          THEN /\ last' = Call("set_ram", index, value, "InvalidMemoryAccess", None)
               /\ UNCHANGED ram
          ELSE /\ ram' = Put(ram, (index + 1) % RAM_SIZE, value)
               /\ last' = Call("set_ram", index, value, "Ok", None)
    /\ UNCHANGED <<pc, v, sp, stack, i, display, keyboard, dt, st, d_display>>

set_ram(index, value) ==
    /\ IF index >= RAM_SIZE
          THEN /\ last' = Call("set_ram", index, value, "InvalidMemoryAccess", None)
               /\ UNCHANGED ram
          ELSE /\ ram' = Put(ram, index, value)
               /\ last' = Call("set_ram", index, value, "Ok", None)
    /\ UNCHANGED <<pc, v, sp, stack, i, display, keyboard, dt, st, d_display>>

(***************************************************************************)
(* Chip8::get_v and Chip8::set_v (index: usize, value: u8).                *)
(***************************************************************************)
get_v(index) ==
    /\ IF index >= NUM_REGS
          THEN last' = Call("get_v", index, None, "InvalidRegisterAccess", None)
          ELSE last' = Call("get_v", index, None, "Ok", v[index])
    /\ UNCHANGED <<chip8, d_display>>

set_v(index, value) ==
    /\ IF index >= NUM_REGS
          THEN /\ last' = Call("set_v", index, value, "InvalidRegisterAccess", None)
               /\ UNCHANGED v
          ELSE /\ v' = [v EXCEPT ![index] = value]
               /\ last' = Call("set_v", index, value, "Ok", None)
    /\ UNCHANGED <<pc, sp, stack, i, ram, display, keyboard, dt, st, d_display>>

(***************************************************************************)
(* Chip8::get_pixel and Chip8::set_pixel (index: usize, value: u8): the    *)
(* index is checked first, then the value.                                 *)
(***************************************************************************)
get_pixel(index) ==
    /\ IF index >= DISPLAY_SIZE
          THEN last' = Call("get_pixel", index, None, "InvalidPixelAccess", None)
          ELSE last' = Call("get_pixel", index, None, "Ok", At(display, index))
    /\ UNCHANGED <<chip8, d_display>>

set_pixel_clamping(index, value) ==
    /\ IF index >= DISPLAY_SIZE
          THEN /\ last' = Call("set_pixel", index, value, "InvalidPixelAccess", None)
               /\ UNCHANGED display
          ELSE /\ display' = Put(display, index, IF value = 0 THEN 0 ELSE 1)
               /\ last' = Call("set_pixel", index, value, "Ok", None)
    /\ UNCHANGED <<pc, v, sp, stack, i, ram, keyboard, dt, st, d_display>>

set_pixel(index, value) ==
    /\ IF index >= DISPLAY_SIZE
          THEN /\ last' = Call("set_pixel", index, value, "InvalidPixelAccess", None)
               /\ UNCHANGED display
          ELSE IF value = 1 \/ value = 0
                  THEN /\ display' = Put(display, index, value)
                       /\ last' = Call("set_pixel", index, value, "Ok", None)
                  ELSE /\ last' = Call("set_pixel", index, value, "InvalidPixelValue", None)
                       /\ UNCHANGED display
    /\ UNCHANGED <<pc, v, sp, stack, i, ram, keyboard, dt, st, d_display>>

(***************************************************************************)
(* Chip8::get_key_state and Chip8::set_key_state (index: usize, bool).     *)
(***************************************************************************)
get_key_state(index) ==
    /\ IF index >= NUM_KEYS
          THEN last' = Call("get_key_state", index, None, "InvalidKeyAccess", None)
          ELSE last' = Call("get_key_state", index, None, "Ok", keyboard[index])
    /\ UNCHANGED <<chip8, d_display>>

set_key_state(index, value) ==
    /\ IF index >= NUM_KEYS
          THEN /\ last' = Call("set_key_state", index, value, "InvalidKeyAccess", None)
               /\ UNCHANGED keyboard
          ELSE /\ keyboard' = [keyboard EXCEPT ![index] = value]
               /\ last' = Call("set_key_state", index, value, "Ok", None)
    /\ UNCHANGED <<pc, v, sp, stack, i, ram, display, dt, st, d_display>>

(***************************************************************************)
(* Display::get_pixel and Display::set_pixel, on Display's own buffer.     *)
(***************************************************************************)
d_get_pixel(index) ==
    /\ IF index >= DISPLAY_SIZE
          THEN last' = Call("Display::get_pixel", index, None, "InvalidPixelAccess", None)
          ELSE last' = Call("Display::get_pixel", index, None, "Ok", At(d_display, index))
    /\ UNCHANGED <<chip8, d_display>>

d_set_pixel(index, value) ==
    /\ IF index >= DISPLAY_SIZE
          THEN /\ last' = Call("Display::set_pixel", index, value, "InvalidPixelAccess", None)
               /\ UNCHANGED d_display
          ELSE IF value = 1 \/ value = 0
                  THEN /\ d_display' = Put(d_display, index, value)
                       /\ last' = Call("Display::set_pixel", index, value, "Ok", None)
                  ELSE /\ last' = Call("Display::set_pixel", index, value, "InvalidPixelValue", None)
                       /\ UNCHANGED d_display
    /\ UNCHANGED chip8

(***************************************************************************)
(* Inputs of the indexed accessors: the first and the last cell of the     *)
(* array, and the Over indices that follow the last one (for the u16       *)
(* index of ram also the largest u16); the u8 values 0, 1, 2 and 255.      *)
(***************************************************************************)
Indices(size) == {0, size - 1} \cup (size..(size + Over - 1))
RamIndices == Indices(RAM_SIZE) \cup {U16_MAX}
ByteVals == {0, 1, U8_MAX}
PixelVals == {0, 1, 2, U8_MAX}

GetRam == \E index \in RamIndices : get_ram(index) /\ UNCHANGED <<script, others>>
SetRam == \E index \in RamIndices, value \in ByteVals :
              set_ram(index, value) /\ UNCHANGED <<script, others>>
GetV == \E index \in Indices(NUM_REGS) : get_v(index) /\ UNCHANGED <<script, others>>
SetV == \E index \in Indices(NUM_REGS), value \in ByteVals :
            set_v(index, value) /\ UNCHANGED <<script, others>>
GetPixel == \E index \in Indices(DISPLAY_SIZE) :
                get_pixel(index) /\ UNCHANGED <<script, others>>
SetPixel == \E index \in Indices(DISPLAY_SIZE), value \in PixelVals :
                set_pixel(index, value) /\ UNCHANGED <<script, others>>
GetKeyState == \E index \in Indices(NUM_KEYS) :
                   get_key_state(index) /\ UNCHANGED <<script, others>>
SetKeyState == \E index \in Indices(NUM_KEYS), value \in BOOLEAN :
                   set_key_state(index, value) /\ UNCHANGED <<script, others>>
DisplayGetPixel == \E index \in Indices(DISPLAY_SIZE) :
                       d_get_pixel(index) /\ UNCHANGED <<script, others>>
DisplaySetPixel == \E index \in Indices(DISPLAY_SIZE), value \in PixelVals :
                       d_set_pixel(index, value) /\ UNCHANGED <<script, others>>

NextCells ==
    \/ GetRam \/ SetRam
    \/ GetV \/ SetV
    \/ GetPixel \/ SetPixel
    \/ GetKeyState \/ SetKeyState

SpecCells == Init /\ [][NextCells]_vars

NextPixels == GetPixel \/ SetPixel \/ DisplayGetPixel \/ DisplaySetPixel

SpecPixels == Init /\ [][NextPixels]_vars

(***************************************************************************)
(* Chip8::set_dt, Chip8::set_st and Chip8::decrease_timers (u8 values).    *)
(***************************************************************************)
set_dt(value) ==
    /\ dt' = value
    /\ last' = Call("set_dt", None, value, "Ok", None)
    /\ UNCHANGED <<pc, v, sp, stack, i, ram, display, keyboard, st, d_display>>

set_st(value) ==
    /\ st' = value
    /\ last' = Call("set_st", None, value, "Ok", None)
    /\ UNCHANGED <<pc, v, sp, stack, i, ram, display, keyboard, dt, d_display>>

decrease_timers_wrapping ==
    /\ st' = (st - 1) % (U8_MAX + 1)
    /\ dt' = (dt - 1) % (U8_MAX + 1)
    /\ last' = Call("decrease_timers", None, None, "Ok", None)
    /\ UNCHANGED <<pc, v, sp, stack, i, ram, display, keyboard, d_display>>

decrease_timers ==
    /\ st' = IF st > 0 THEN st - 1 ELSE st
    /\ dt' = IF dt > 0 THEN dt - 1 ELSE dt
    /\ last' = Call("decrease_timers", None, None, "Ok", None)
    /\ UNCHANGED <<pc, v, sp, stack, i, ram, display, keyboard, d_display>>

(***************************************************************************)
(* The caller of tests::test_timers: it sets the timers, then only ticks.  *)
(* ticks counts the decrease_timers calls made since the timers were set   *)
(* (at most MaxTicks), dt0 and st0 are the values the timers were set to.  *)
(***************************************************************************)
TimerVals == {0, 1, 150, 250, U8_MAX}

SetDt ==
    /\ ticks = 0
    /\ \E value \in TimerVals : set_dt(value) /\ dt0' = value
    /\ UNCHANGED <<cyc, ticks, st0, others>>

SetSt ==
    /\ ticks = 0
    /\ \E value \in TimerVals : set_st(value) /\ st0' = value
    /\ UNCHANGED <<cyc, ticks, dt0, others>>

DecreaseTimers ==
    /\ ticks < MaxTicks
    /\ decrease_timers
    /\ ticks' = ticks + 1
    /\ UNCHANGED <<cyc, dt0, st0, others>>

NextTimers == SetDt \/ SetSt \/ DecreaseTimers

SpecTimers == Init /\ [][NextTimers]_vars

(***************************************************************************)
(* The tone generator.  A call of Audio is recorded in last with the flag  *)
(* and the number of queued sources it found (flag, queued) and the number *)
(* of sources it appended (out).                                           *)
(***************************************************************************)
AudioCall(op, flag, queued, enq) ==
    [op |-> op, idx |-> None, val |-> None, res |-> "Ok", out |-> enq,
     flag |-> flag, queued |-> queued]

(***************************************************************************)
(* Audio::start_beep: an empty sink clears the flag; then, with the flag   *)
(* clear, the flag is set, one source is appended and the sink plays.      *)
(* The sink's counter can only fall between the two tests, and the second  *)
(* test does not read it, so the call is one step.                         *)
(***************************************************************************)
start_beep_always_appends ==
    /\ beeping' = TRUE
    /\ sink' = sink + 1
    /\ paused' = FALSE
    /\ last' = AudioCall("start_beep", beeping, sink, 1)
    /\ UNCHANGED <<chip8, d_display>>

start_beep_no_resync ==
    /\ IF ~beeping
          THEN /\ beeping' = TRUE
               /\ sink' = sink + 1
               /\ paused' = FALSE
               /\ last' = AudioCall("start_beep", beeping, sink, 1)
          ELSE /\ UNCHANGED <<beeping, sink, paused>>
               /\ last' = AudioCall("start_beep", beeping, sink, 0)
    /\ UNCHANGED <<chip8, d_display>>

start_beep_flag_unset ==
    /\ LET flag == IF sink = 0 THEN FALSE ELSE beeping
       IN  IF ~flag
              THEN /\ beeping' = flag
                   /\ sink' = sink + 1
                   /\ paused' = FALSE
                   /\ last' = AudioCall("start_beep", beeping, sink, 1)
              ELSE /\ beeping' = flag
                   /\ UNCHANGED <<sink, paused>>
                   /\ last' = AudioCall("start_beep", beeping, sink, 0)
    /\ UNCHANGED <<chip8, d_display>>

start_beep ==
    /\ LET flag == IF sink = 0 THEN FALSE ELSE beeping
       IN  IF ~flag
              THEN /\ beeping' = TRUE
                   /\ sink' = sink + 1
                   /\ paused' = FALSE
                   /\ last' = AudioCall("start_beep", beeping, sink, 1)
              ELSE /\ beeping' = flag
                   /\ UNCHANGED <<sink, paused>>
                   /\ last' = AudioCall("start_beep", beeping, sink, 0)
    /\ UNCHANGED <<chip8, d_display>>

(***************************************************************************)
(* Audio::stop_beep: pause, clear, flag off.                               *)
(***************************************************************************)
stop_beep_keeps_queue ==
    /\ paused' = TRUE
    /\ sink' = sink
    /\ beeping' = FALSE
    /\ last' = AudioCall("stop_beep", beeping, sink, 0)
    /\ UNCHANGED <<chip8, d_display>>

stop_beep ==
    /\ paused' = TRUE
    /\ sink' = 0
    /\ beeping' = FALSE
    /\ last' = AudioCall("stop_beep", beeping, sink, 0)
    /\ UNCHANGED <<chip8, d_display>>

(***************************************************************************)
(* The playing sink reaches the end of a queued source (the one-second     *)
(* tone of take_duration): the source leaves the queue.                    *)
(***************************************************************************)
tone_ends ==
    /\ ~paused
    /\ sink > 0
    /\ sink' = sink - 1
    /\ last' = AudioCall("tone_ends", beeping, sink, 0)
    /\ UNCHANGED <<beeping, paused, chip8, d_display>>

StartBeep ==
    /\ issued < MaxTones
    /\ start_beep
    /\ issued' = issued + last'.out
    /\ UNCHANGED <<script, buffer, mainpos, ghost>>

StopBeep == stop_beep /\ UNCHANGED <<script, issued, buffer, mainpos, ghost>>

ToneEnds == tone_ends /\ UNCHANGED <<script, issued, buffer, mainpos, ghost>>

NextAudio == StartBeep \/ StopBeep \/ ToneEnds

SpecAudio == Init /\ [][NextAudio]_vars

(***************************************************************************)
(* Display::render.  The four nested loops write                           *)
(*   buffer[(y * SCALE + dy) * WIDTH + (x * SCALE + dx)] = color           *)
(* for y, x, dy, dx in this order; a write past the end of the buffer      *)
(* panics.  Order is the rank of a write in the loops, Writes the writes   *)
(* that hit a probe or leave the buffer; a write that follows a panicking  *)
(* one does not happen.  After the loops the buffer goes to the window     *)
(* (update_with_buffer), which the model leaves out.                       *)
(***************************************************************************)
WriteIndex_row_of_cols(x, y, dx, dy) == (y * SCALE + dy) * COLS + (x * SCALE + dx)

WriteIndex(x, y, dx, dy) == (y * SCALE + dy) * WIDTH + (x * SCALE + dx)

Color(fb, x, y) ==
    IF At(fb, y * COLS + x) = 1 THEN FOREGROUND ELSE BACKGROUND

Order(x, y, dx, dy) == ((y * COLS + x) * SCALE + dy) * SCALE + dx

InBuffer(n) == n \in 0..(WIDTH * HEIGHT - 1)

Writes ==
    {[at |-> WriteIndex(w[1], w[2], w[3], w[4]),
      order |-> Order(w[1], w[2], w[3], w[4]), x |-> w[1], y |-> w[2]] :
        w \in {c \in (0..(COLS - 1)) \X (0..(ROWS - 1))
                        \X (0..(SCALE - 1)) \X (0..(SCALE - 1)) :
                  LET n == WriteIndex(c[1], c[2], c[3], c[4])
                  IN  n \in Probes \/ ~InBuffer(n)}}

Final(hits) == CHOOSE w \in hits : \A o \in hits : o.order <= w.order

render ==
    \E ws \in {Writes} :
        LET stray == {w \in ws : ~InBuffer(w.at)}
            done == {w \in ws \ stray : \A b \in stray : w.order < b.order}
            hit(p) == {w \in done : w.at = p}
        IN  /\ buffer' = [p \in Probes |->
                            IF hit(p) = {} THEN buffer[p]
                            ELSE Color(d_display, Final(hit(p)).x, Final(hit(p)).y)]
            /\ last' = Call("render", None, None,
                            IF stray = {} THEN "Ok" ELSE "panic",
                            {p \in Probes : hit(p) # {}})
            /\ UNCHANGED <<chip8, d_display>>

(***************************************************************************)
(* main: the drawing loop over y and x sets the pixels of the pattern      *)
(* (main draws the checkerboard), then the main loop renders; between two  *)
(* renders of the loop the first pixel may be redrawn.                     *)
(***************************************************************************)
Patterns == {"checker", "corner", "far", "blank"}

Lit(pattern, x, y) ==
    CASE pattern = "checker" -> (x + y) % 2 = 0
      [] pattern = "corner" -> x = 0 /\ y = 0
      [] pattern = "far" -> x = COLS - 1 /\ y = ROWS - 1
      [] OTHER -> FALSE

MainDraw ==
    /\ cell < COLS * ROWS
    /\ LET x == cell % COLS
           y == cell \div COLS
       IN  IF Lit(pat, x, y)
              THEN d_set_pixel(y * COLS + x, 1)
              ELSE UNCHANGED <<chip8, d_display, last>>
    /\ cell' = cell + 1
    /\ UNCHANGED <<script, audio, issued, buffer, pat, renders, ghost>>

MainRender ==
    /\ cell = COLS * ROWS
    /\ renders < MaxRenders
    /\ render
    /\ renders' = renders + 1
    /\ UNCHANGED <<script, audio, issued, pat, cell, ghost>>

MainRedraw ==
    /\ cell = COLS * ROWS
    /\ renders \in 1..(MaxRenders - 1)
    /\ \E value \in {0, 1} : d_set_pixel(0, value)
    /\ UNCHANGED <<script, audio, issued, buffer, mainpos, ghost>>

NextRender == MainDraw \/ MainRender \/ MainRedraw

InitRender == InitMachine /\ pat \in Patterns

SpecRender == InitRender /\ [][NextRender]_vars

(***************************************************************************)
(* A caller of the machine state: up to MaxCalls calls of any operation of *)
(* impl Chip8, each with an argument at, next to, or past its bound.       *)
(***************************************************************************)
CallerBytes == {1, U8_MAX}

AnyCall ==
    \/ \E value \in {1, PC_LIMIT, RAM_SIZE} : set_pc(value)
    \/ \E value \in {1, RAM_SIZE - 1, RAM_SIZE} : set_i(value)
    \/ \E value \in PushVals : push_stack(value)
    \/ pop_stack
    \/ \E index \in Indices(RAM_SIZE) : get_ram(index)
    \/ \E index \in Indices(RAM_SIZE), value \in CallerBytes : set_ram(index, value)
    \/ \E index \in Indices(NUM_REGS) : get_v(index)
    \/ \E index \in Indices(NUM_REGS), value \in CallerBytes : set_v(index, value)
    \/ \E index \in Indices(DISPLAY_SIZE) : get_pixel(index)
    \/ \E index \in Indices(DISPLAY_SIZE), value \in {1, 2} : set_pixel(index, value)
    \/ \E index \in Indices(NUM_KEYS) : get_key_state(index)
    \/ \E index \in Indices(NUM_KEYS), value \in BOOLEAN : set_key_state(index, value)
    \/ \E value \in CallerBytes : set_dt(value)
    \/ \E value \in CallerBytes : set_st(value)
    \/ decrease_timers

NextCaller ==
    /\ calls < MaxCalls
    /\ AnyCall
    /\ calls' = calls + 1
    /\ UNCHANGED <<script, audio, issued, buffer, mainpos, lifo, phase>>

SpecCaller == Init /\ [][NextCaller]_vars

(***************************************************************************)
(* main, the sound of its loop: set_st once before the loop, then in every *)
(* iteration start_beep when get_st() > 0 and stop_beep otherwise,         *)
(* followed by decrease_timers.  get_st returns the sound timer st.  The   *)
(* keyboard poll and the render of the loop body touch neither the timers  *)
(* nor the tone generator and are not part of these steps.  ticks counts   *)
(* the finished iterations up to MaxTicks; the sink may finish its tone at *)
(* any moment.                                                             *)
(***************************************************************************)
LoopVals == {1, 2, 150}

MainSetSt ==
    /\ phase = "start"
    /\ \E value \in LoopVals : set_st(value) /\ st0' = value
    /\ phase' = "sound"
    /\ UNCHANGED <<cyc, ticks, dt0, audio, issued, buffer, mainpos, calls, lifo>>

MainSound_never_stops ==
    /\ phase = "sound"
    /\ IF st > 0
          THEN start_beep
          ELSE UNCHANGED <<chip8, d_display, audio, last>>
    /\ issued' = issued + (IF last'.op = "start_beep" THEN last'.out ELSE 0)
    /\ phase' = "timers"
    /\ UNCHANGED <<script, buffer, mainpos, calls, lifo>>

MainSound ==
    /\ phase = "sound"
    /\ IF st > 0 THEN start_beep ELSE stop_beep
    /\ issued' = issued + last'.out
    /\ phase' = "timers"
    /\ UNCHANGED <<script, buffer, mainpos, calls, lifo>>

MainTimers ==
    /\ phase = "timers"
    /\ decrease_timers
    /\ ticks' = IF ticks < MaxTicks THEN ticks + 1 ELSE ticks
    /\ phase' = "sound"
    /\ UNCHANGED <<cyc, dt0, st0, audio, issued, buffer, mainpos, calls, lifo>>

NextLoop == MainSetSt \/ MainSound \/ MainTimers \/ ToneEnds

SpecLoop == Init /\ [][NextLoop]_vars

(***************************************************************************)
(* The loop of main keeps running (it sleeps 16 ms per iteration and ends  *)
(* only when the window closes): each of its steps is taken when it stays  *)
(* enabled.  Nothing is assumed about when the sink finishes a tone.       *)
(***************************************************************************)
FairLoop ==
    SpecLoop /\ WF_vars(MainSetSt) /\ WF_vars(MainSound) /\ WF_vars(MainTimers)

(***************************************************************************)
(* The stack next to the abstract LIFO it implements: every push_stack and *)
(* pop_stack is also applied to the sequence lifo, which holds at most     *)
(* STACK_SIZE values, takes a push at its end and gives up its last value  *)
(* on a pop.                                                               *)
(***************************************************************************)
LifoPush(value) ==
    IF Len(lifo) < STACK_SIZE THEN Append(lifo, value) ELSE lifo

LifoPop ==
    IF Len(lifo) > 0 THEN SubSeq(lifo, 1, Len(lifo) - 1) ELSE lifo

PushBoth ==
    \E value \in PushVals :
        /\ MayPush(value)
        /\ push_stack(value)
        /\ lifo' = LifoPush(value)
        /\ UNCHANGED <<script, audio, issued, buffer, mainpos, calls, phase>>

PopBoth ==
    /\ pop_stack
    /\ lifo' = LifoPop
    /\ UNCHANGED <<script, audio, issued, buffer, mainpos, calls, phase>>

NextLifo == PushBoth \/ PopBoth

SpecLifo == Init /\ [][NextLifo]_vars

(***************************************************************************)
(* Every operation of the machine state, the tone generator, the renderer  *)
(* and main.                                                               *)
(***************************************************************************)
Next ==
    \/ NextAddr
    \/ NextStack
    \/ NextCells
    \/ DisplayGetPixel \/ DisplaySetPixel
    \/ NextTimers
    \/ NextAudio
    \/ NextRender
    \/ NextCaller
    \/ NextLoop
    \/ NextLifo

Spec == Init /\ [][Next]_vars

(***************************************************************************)
(* C1: set_pc(value) validates the incoming value: it returns              *)
(* PCOutOfBounds exactly when value > 4094, whatever pc holds, and         *)
(* otherwise returns ok and stores value in pc.                            *)
(***************************************************************************)
C1_SetPcValidatesIncoming ==
    last.op = "set_pc" =>
        /\ (last.res = "PCOutOfBounds") <=> (last.val > PC_LIMIT)
        /\ (last.res = "Ok") <=> (last.val <= PC_LIMIT)
        /\ (last.res = "Ok") => (pc = last.val)

(***************************************************************************)
(* C2: whenever set_pc or set_i returns an error, pc respectively I is     *)
(* the same after the call as before it.                                   *)
(***************************************************************************)
C2_RejectWithoutMutating ==
    [][ /\ (last'.op = "set_pc" /\ IsErr(last')) => (pc' = pc)
        /\ (last'.op = "set_i" /\ IsErr(last')) => (i' = i) ]_vars

(***************************************************************************)
(* C3: the address register I is below 4096 in every reachable state.      *)
(***************************************************************************)
C3_IWithinMemory == i < RAM_SIZE

(***************************************************************************)
(* C4: the program counter is below 4096 in every reachable state.         *)
(***************************************************************************)
C4_PcWithinMemory == pc < RAM_SIZE

(***************************************************************************)
(* C5: sp stays in [0,16]; push_stack fails with StackOverflow exactly     *)
(* when sp = 16, pop_stack fails with StackUnderflow exactly when sp = 0,  *)
(* and a failed push or pop leaves sp and the stack contents unchanged.    *)
(***************************************************************************)
C5_StackDepthGuard ==
    /\ [](sp \in 0..STACK_SIZE)
    /\ [][ /\ (last'.op = "push_stack") =>
                /\ (last'.res = "StackOverflow") <=> (sp = STACK_SIZE)
                /\ (last'.res = "Ok") <=> (sp # STACK_SIZE)
           /\ (last'.op = "pop_stack") =>
                /\ (last'.res = "StackUnderflow") <=> (sp = 0)
                /\ (last'.res = "Ok") <=> (sp # 0)
           /\ (last'.op \in {"push_stack", "pop_stack"} /\ IsErr(last')) =>
                (sp' = sp /\ stack' = stack) ]_vars

C5_Witness ==
    /\ last.op = "push_stack"
    /\ last.res = "StackOverflow"
    /\ sp = STACK_SIZE
    /\ last.val # stack[STACK_SIZE - 1]

(***************************************************************************)
(* C6: from an empty stack 16 consecutive pushes succeed, a 17th fails     *)
(* with overflow, 16 pops then succeed and bring the depth back to 0, and  *)
(* a following push succeeds and lands in slot 0.                          *)
(***************************************************************************)
C6_StackFullCycle ==
    /\ (cyc \in 1..STACK_SIZE) =>
           (last.op = "push_stack" /\ last.res = "Ok" /\ sp = cyc)
    /\ (cyc = STACK_SIZE + 1) =>
           (last.op = "push_stack" /\ last.res = "StackOverflow"
            /\ sp = STACK_SIZE)
    /\ (cyc \in (STACK_SIZE + 2)..(2 * STACK_SIZE + 1)) =>
           (last.op = "pop_stack" /\ last.res = "Ok"
            /\ sp = 2 * STACK_SIZE + 1 - cyc)
    /\ (cyc = CycleLen) =>
           (last.op = "push_stack" /\ last.res = "Ok" /\ sp = 1
            /\ stack[0] = last.val)

C6_Witness ==
    /\ cyc = CycleLen
    /\ last.res = "Ok"
    /\ sp = 1
    /\ stack[1] # stack[0]


(***************************************************************************)
(* C7: a successful write followed by a read at the same index returns     *)
(* the written value, for registers, memory, pixels and keys.              *)
(***************************************************************************)
ReadsBack(setter, getter) ==
    (/\ last.op = setter
     /\ last.res = "Ok"
     /\ last'.op = getter
     /\ last'.idx = last.idx) => (last'.res = "Ok" /\ last'.out = last.val)

C7_WriteReadRoundTrip ==
    [][ /\ ReadsBack("set_v", "get_v")
        /\ ReadsBack("set_ram", "get_ram")
        /\ ReadsBack("set_pixel", "get_pixel")
        /\ ReadsBack("set_key_state", "get_key_state") ]_vars

C7_Witness ==
    /\ last.op = "get_ram"
    /\ last.res = "Ok"
    /\ last.idx = RAM_SIZE - 1
    /\ last.out = U8_MAX
    /\ v[NUM_REGS - 1] = 1
    /\ At(display, DISPLAY_SIZE - 1) = 1
    /\ keyboard[NUM_KEYS - 1]

(***************************************************************************)
(* C8: a write at an index at or above the domain size fails with the      *)
(* field's error and the whole machine state is the same after the call    *)
(* as before it.                                                           *)
(***************************************************************************)
RejectsAbove(setter, size, error) ==
    (last'.op = setter /\ last'.idx >= size) =>
        (last'.res = error /\ UNCHANGED <<chip8, d_display>>)

C8_OutOfRangeWriteRejected ==
    [][ /\ RejectsAbove("set_ram", RAM_SIZE, "InvalidMemoryAccess")
        /\ RejectsAbove("set_v", NUM_REGS, "InvalidRegisterAccess")
        /\ RejectsAbove("set_pixel", DISPLAY_SIZE, "InvalidPixelAccess")
        /\ RejectsAbove("set_key_state", NUM_KEYS, "InvalidKeyAccess") ]_vars

C8_Witness ==
    /\ last.op = "set_ram"
    /\ last.idx = RAM_SIZE
    /\ last.val = U8_MAX
    /\ last.res = "InvalidMemoryAccess"
    /\ At(ram, RAM_SIZE - 1) = 1
    /\ RAM_SIZE \notin DOMAIN ram

(***************************************************************************)
(* C9: every framebuffer cell holds 0 or 1; set_pixel with another value   *)
(* fails with InvalidPixelValue and leaves the pixel unchanged, and with   *)
(* an index >= 2048 it fails with InvalidPixelAccess; the same holds for   *)
(* Display::set_pixel.                                                     *)
(***************************************************************************)
OneBit(buf) ==
    /\ DOMAIN buf \subseteq 0..(DISPLAY_SIZE - 1)
    /\ \A k \in 0..(DISPLAY_SIZE - 1) : At(buf, k) \in {0, 1}

C9_PixelsAreBits ==
    /\ [](OneBit(display) /\ OneBit(d_display))
    /\ [][ (last'.op \in {"set_pixel", "Display::set_pixel"}) =>
             /\ (last'.idx >= DISPLAY_SIZE) => (last'.res = "InvalidPixelAccess")
             /\ (last'.idx < DISPLAY_SIZE /\ last'.val \notin {0, 1}) =>
                   /\ last'.res = "InvalidPixelValue"
                   /\ display' = display
                   /\ d_display' = d_display
             /\ IsErr(last') => (display' = display /\ d_display' = d_display)
          ]_vars

C9_Witness ==
    /\ last.op = "Display::set_pixel"
    /\ last.idx = 0
    /\ last.val = 2
    /\ last.res = "InvalidPixelValue"
    /\ At(d_display, 0) = 1
    /\ At(display, DISPLAY_SIZE - 1) = 1

(***************************************************************************)
(* C10: timer decrement saturates at 0: a timer set to n holds n - k after *)
(* k < n ticks and 0 after any k >= n ticks, never 255 by wrapping; after  *)
(* set_dt(250), set_st(150) and 256 ticks both timers are 0.               *)
(***************************************************************************)
C10_SaturatingTimers ==
    /\ dt = Max(dt0 - ticks, 0)
    /\ st = Max(st0 - ticks, 0)
    /\ (ticks >= dt0) => (dt = 0)
    /\ (ticks >= st0) => (st = 0)
    /\ (dt0 = 250 /\ st0 = 150 /\ ticks = U8_MAX + 1) => (dt = 0 /\ st = 0)

C10_Witness ==
    /\ last.op = "decrease_timers"
    /\ dt0 = 250
    /\ st0 = 150
    /\ ticks = U8_MAX + 1
    /\ dt = 0
    /\ st = 0

(***************************************************************************)
(* C11: the sink never holds more than one queued tone; a start_beep       *)
(* issued while the flag is set and the sink is non-empty enqueues         *)
(* nothing, so after two start_beep calls in immediate succession the      *)
(* sink holds exactly one tone and the second call enqueued none.          *)
(***************************************************************************)
C11_NoStackedTones ==
    /\ [](sink <= 1)
    /\ [][ /\ (last'.op = "start_beep" /\ beeping /\ sink > 0) =>
                (last'.out = 0 /\ sink' = sink /\ issued' = issued)
           /\ (last.op = "start_beep" /\ last'.op = "start_beep") =>
                (last'.out = 0 /\ sink' = 1 /\ last.out + last'.out <= 1)
        ]_vars

C11_Witness ==
    /\ last.op = "start_beep"
    /\ last.flag
    /\ last.queued = 1
    /\ last.out = 0
    /\ sink = 1
    /\ issued = 1

(***************************************************************************)
(* C12: stop_beep pauses the sink, empties it and clears the flag from     *)
(* every state; a start_beep right after a stop_beep enqueues exactly one  *)
(* tone, sets the flag and starts playback.                                *)
(***************************************************************************)
C12_StopThenStart ==
    [][ /\ (last'.op = "stop_beep") => (paused' /\ sink' = 0 /\ ~beeping')
        /\ (last.op = "stop_beep" /\ last'.op = "start_beep") =>
             (last'.out = 1 /\ sink' = 1 /\ beeping' /\ ~paused'
              /\ issued' = issued + 1)
      ]_vars

C12_Witness ==
    /\ last.op = "start_beep"
    /\ ~last.flag
    /\ last.queued = 0
    /\ last.out = 1
    /\ paused = FALSE
    /\ issued = 2

(***************************************************************************)
(* C13: render maps the framebuffer to the device buffer exactly.  After a *)
(* render the device pixel (X, Y) holds the foreground colour when the     *)
(* logical pixel at index (Y div SCALE) * 64 + (X div SCALE) is 1 and the  *)
(* background colour otherwise, and every device pixel has been written by *)
(* that render; with only pixel (0, 0) drawn exactly the top-left block is *)
(* foreground, and the checkerboard of main gives a checkerboard of        *)
(* blocks.  Read at the device pixels of Probes.                           *)
(***************************************************************************)
Expected(X, Y) ==
    IF At(d_display, (Y \div SCALE) * COLS + (X \div SCALE)) = 1
       THEN FOREGROUND ELSE BACKGROUND

Shown(X, Y) == buffer[Y * WIDTH + X] = FOREGROUND

C13_RenderExact ==
    last.op = "render" =>
        /\ last.res = "Ok"
        /\ last.out = Probes
        /\ \A X \in Edges(WIDTH), Y \in Edges(HEIGHT) :
              /\ buffer[Y * WIDTH + X] = Expected(X, Y)
              /\ (pat = "corner" /\ renders = 1) =>
                    (Shown(X, Y) <=> (X < SCALE /\ Y < SCALE))
              /\ (pat = "checker" /\ renders = 1) =>
                    (Shown(X, Y) <=> ((X \div SCALE) + (Y \div SCALE)) % 2 = 0)

C13_Witness ==
    /\ last.op = "render"
    /\ pat = "checker"
    /\ Shown(0, 0) /\ Shown(SCALE - 1, SCALE - 1)
    /\ ~Shown(SCALE, 0) /\ ~Shown(0, SCALE)
    /\ Shown(WIDTH - 1, HEIGHT - 1)

(***************************************************************************)
(* C14: no guarded operation has side effects beyond the field it          *)
(* documents.  A successful set_v, set_ram, set_pixel or set_key_state     *)
(* changes only the addressed cell of its own array; set_pc changes only   *)
(* pc, set_i only I, set_dt only the delay timer, set_st only the sound    *)
(* timer, decrease_timers only the two timers, push_stack only stack[sp]   *)
(* and sp, pop_stack only sp; every read leaves the whole state unchanged. *)
(***************************************************************************)
Reads == {"get_ram", "get_v", "get_pixel", "get_key_state"}

OnlyCell(before, after, cells, index) ==
    \A k \in cells \ {index} : At(after, k) = At(before, k)

C14_NoSideEffects ==
    [][ calls' # calls =>
        LET c == last'
            ok == c.res = "Ok"
        IN  /\ UNCHANGED <<d_display, audio, buffer>>
            /\ c.op \in Reads => UNCHANGED chip8
            /\ (c.op = "set_pc" /\ ok) =>
                  UNCHANGED <<v, sp, stack, i, ram, display, keyboard, dt, st>>
            /\ (c.op = "set_i" /\ ok) =>
                  UNCHANGED <<pc, v, sp, stack, ram, display, keyboard, dt, st>>
            /\ (c.op = "set_dt") =>
                  UNCHANGED <<pc, v, sp, stack, i, ram, display, keyboard, st>>
            /\ (c.op = "set_st") =>
                  UNCHANGED <<pc, v, sp, stack, i, ram, display, keyboard, dt>>
            /\ (c.op = "decrease_timers") =>
                  UNCHANGED <<pc, v, sp, stack, i, ram, display, keyboard>>
            /\ (c.op = "push_stack" /\ ok) =>
                  /\ UNCHANGED <<pc, v, i, ram, display, keyboard, dt, st>>
                  /\ OnlyCell(stack, stack', 0..(STACK_SIZE - 1), sp)
            /\ (c.op = "pop_stack" /\ ok) =>
                  UNCHANGED <<pc, v, stack, i, ram, display, keyboard, dt, st>>
            /\ (c.op = "set_v" /\ ok) =>
                  /\ UNCHANGED <<pc, sp, stack, i, ram, display, keyboard, dt, st>>
                  /\ OnlyCell(v, v', 0..(NUM_REGS - 1), c.idx)
            /\ (c.op = "set_ram" /\ ok) =>
                  /\ UNCHANGED <<pc, v, sp, stack, i, display, keyboard, dt, st>>
                  /\ OnlyCell(ram, ram', 0..(RAM_SIZE - 1), c.idx)
            /\ (c.op = "set_pixel" /\ ok) =>
                  /\ UNCHANGED <<pc, v, sp, stack, i, ram, keyboard, dt, st>>
                  /\ OnlyCell(display, display', 0..(DISPLAY_SIZE - 1), c.idx)
            /\ (c.op = "set_key_state" /\ ok) =>
                  /\ UNCHANGED <<pc, v, sp, stack, i, ram, display, dt, st>>
                  /\ OnlyCell(keyboard, keyboard', 0..(NUM_KEYS - 1), c.idx) ]_vars

C14_Witness ==
    /\ calls = MaxCalls
    /\ last.op = "pop_stack" /\ last.res = "Ok"
    /\ sp = 1
    /\ stack[0] = 11 /\ stack[1] = 99

(***************************************************************************)
(* C15: validation failures are recoverable by the caller.  After a        *)
(* guarded operation has returned an error, the next call of the same      *)
(* operation with in-range arguments (set_pc with a value <= 4094, set_i   *)
(* with a value < 4096, an indexed write with a valid index and value)     *)
(* succeeds and takes effect.                                              *)
(***************************************************************************)
InRange(c) ==
    CASE c.op = "set_pc" -> c.val <= PC_LIMIT
      [] c.op = "set_i" -> c.val < RAM_SIZE
      [] c.op = "set_ram" -> c.idx < RAM_SIZE
      [] c.op = "set_v" -> c.idx < NUM_REGS
      [] c.op = "set_pixel" -> c.idx < DISPLAY_SIZE /\ c.val \in {0, 1}
      [] c.op = "set_key_state" -> c.idx < NUM_KEYS
      [] OTHER -> FALSE

C15_ErrorsRecoverable ==
    [][ (calls' # calls /\ IsErr(last) /\ last'.op = last.op /\ InRange(last')) =>
            /\ last'.res = "Ok"
            /\ last'.op = "set_pc" => pc' = last'.val
            /\ last'.op = "set_i" => i' = last'.val
            /\ last'.op = "set_ram" => At(ram', last'.idx) = last'.val
            /\ last'.op = "set_v" => v'[last'.idx] = last'.val
            /\ last'.op = "set_pixel" => At(display', last'.idx) = last'.val
            /\ last'.op = "set_key_state" => keyboard'[last'.idx] = last'.val ]_vars

(***************************************************************************)
(* C16: natural tone completion is detected at the next start_beep.  A     *)
(* start_beep called while the sink is empty enqueues exactly one tone and *)
(* starts playback whatever the flag was, so it ends Sounding with exactly *)
(* one queued tone, also after a tone ran out with the flag still          *)
(* Sounding.                                                               *)
(***************************************************************************)
C16_CompletionDetected ==
    [][ (last'.op = "start_beep" /\ last'.queued = 0 /\ sink = 0) =>
            /\ last'.out = 1
            /\ issued' = issued + 1
            /\ sink' = 1
            /\ beeping'
            /\ ~paused' ]_vars

C16_Witness ==
    /\ last.op = "start_beep"
    /\ last.flag /\ last.queued = 0
    /\ last.out = 1
    /\ beeping /\ sink = 1 /\ ~paused

(***************************************************************************)
(* C17: in the driving loop each tick calls start_beep when the sound      *)
(* timer is nonzero at that tick and stop_beep otherwise, then decrements  *)
(* the timers.  With the sound timer set once to N > 0, start_beep is      *)
(* called on exactly the first N ticks and stop_beep on every later tick,  *)
(* and the tone generator is eventually Idle with an empty sink and stays  *)
(* so.                                                                     *)
(***************************************************************************)
C17_LoopDrivesTone ==
    /\ [][ (phase = "sound" /\ phase' = "timers") =>
              /\ last'.op = (IF st > 0 THEN "start_beep" ELSE "stop_beep")
              /\ (last'.op = "start_beep") <=> (ticks < st0)
              /\ (last'.op = "stop_beep") <=> (ticks >= st0) ]_vars
    /\ [][ (phase = "timers" /\ phase' = "sound") =>
              /\ last'.op = "decrease_timers"
              /\ st' = (IF st > 0 THEN st - 1 ELSE 0) ]_vars
    /\ <>[](~beeping /\ sink = 0 /\ paused)

C17_Witness ==
    /\ st0 = 150
    /\ ticks = st0 /\ phase = "timers"
    /\ last.op = "stop_beep" /\ last.flag /\ last.queued = 1
    /\ issued > 1
    /\ ~beeping /\ sink = 0

(***************************************************************************)
(* C18: the array-plus-pointer stack refines an abstract LIFO sequence.    *)
(* After any sequence of push_stack and pop_stack calls the slots          *)
(* stack[0..sp) hold, in order, exactly the values pushed and not yet      *)
(* popped, and a call fails exactly when the sequence is full or empty; a  *)
(* successful push writes only slot sp and a successful pop changes only   *)
(* sp, leaving every slot as it was.                                       *)
(***************************************************************************)
Live == [k \in 1..sp |-> stack[k - 1]]

C18_StackRefinesLifo ==
    /\ [](Live = lifo)
    /\ [][ /\ (last'.op = "push_stack") =>
                 /\ (last'.res = "Ok") <=> (Len(lifo) < STACK_SIZE)
                 /\ (last'.res = "Ok") =>
                       /\ stack'[sp] = last'.val
                       /\ sp' = sp + 1
                       /\ \A k \in (0..(STACK_SIZE - 1)) \ {sp} : stack'[k] = stack[k]
           /\ (last'.op = "pop_stack") =>
                 /\ (last'.res = "Ok") <=> (Len(lifo) > 0)
                 /\ (last'.res = "Ok") => (sp' = sp - 1 /\ stack' = stack) ]_vars

C18_Witness ==
    /\ last.op = "push_stack" /\ last.res = "Ok"
    /\ sp = 2
    /\ lifo = <<99, 11>>
    /\ stack[2] = 99

(***************************************************************************)
(* C19: the flag of the tone generator never under-reports playback.  In   *)
(* every state reached by start_beep, stop_beep and tone completion a      *)
(* non-empty sink implies the flag is Sounding, and the flag is Sounding   *)
(* with an empty sink only after a natural completion that no start_beep   *)
(* or stop_beep has followed yet.                                          *)
(***************************************************************************)
C19_FlagCoversPlayback ==
    /\ sink > 0 => beeping
    /\ (beeping /\ sink = 0) => last.op = "tone_ends"

C19_Witness ==
    /\ last.op = "tone_ends"
    /\ last.queued = 1
    /\ beeping /\ sink = 0 /\ ~paused

====
